---- MODULE Spec2Model ----
(***************************************************************************)
(* kong-route-tester: a model of main.go.                                  *)
(*                                                                         *)
(* Text is modelled as a sequence of tokens.  A token is a TLA+ string     *)
(* holding a run of characters of the Go string; the Go string is the      *)
(* concatenation of the tokens.  Tokens are cut so that every substring    *)
(* the program searches for ("(?<", "auth", "test", a key of the           *)
(* replacement table, a character of the templating regexp) begins and     *)
(* ends at token boundaries.                                               *)
(***************************************************************************)
EXTENDS Integers, Sequences, FiniteSets, TLC

VARIABLES
    file,           \* what reading and parsing the configuration file yields
    flags,          \* the command line flags
    config,         \* the *KongConfig of main, NoConfig before it is read
    pc,             \* where the run is
    si, ri, pi, mi, \* testRoutes: index of the current service, route, path, method
    hasAuth,        \* testRoutes: hasAuth of the current route
    methods,        \* testRoutes: methods of the current route
    path,           \* testRoutes: the current path, expanded
    results,        \* testRoutes: results
    requestCount,   \* testRoutes: requestCount
    req,            \* the request client.Do is carrying: <<>> or <<request>>
    summary,        \* what printSummary printed: <<>> before, then <<summary>>
    fn,             \* the pure function under call: its name, or None
    arg,            \* the arguments of the calls
    rets            \* the values returned so far, one per call

loopvars == <<si, ri, pi, mi, hasAuth, methods, path>>
runvars == <<file, flags, config, pc, si, ri, pi, mi, hasAuth, methods, path,
             results, requestCount, req, summary>>
callvars == <<fn, arg, rets>>
vars == <<file, flags, config, pc, si, ri, pi, mi, hasAuth, methods, path,
          results, requestCount, req, summary, fn, arg, rets>>

(***************************************************************************)
(* Bounds.                                                                 *)
(***************************************************************************)
MaxCalls == 2       \* calls of a pure function on one input
MaxPlugins == 2     \* plugins in one plugin list
MaxSegments == 2    \* segments of a path template
MaxPieces == 2      \* pieces of a templated text
MaxOutcomes == 2    \* outcomes handed to printSummary
MaxServices == 2    \* services of a configuration
MaxRoutes == 1      \* routes of a service
MaxBudget == 2      \* largest value of --max
MaxFailures == 1    \* probes of one run that fail in transport or are not answered 200

None == "none"

(***************************************************************************)
(* Helpers on token sequences.                                             *)
(***************************************************************************)
RECURSIVE SeqsUpTo(_, _)
SeqsUpTo(S, n) ==
    IF n = 0 THEN {<<>>}
    ELSE LET P == SeqsUpTo(S, n - 1) IN P \cup { Append(p, x) : p \in P, x \in S }

Range(s) == { s[i] : i \in DOMAIN s }

RECURSIVE ReplaceAll_First(_, _, _)
ReplaceAll_First(s, old, new) ==
    IF Len(s) < Len(old) THEN s
    ELSE IF SubSeq(s, 1, Len(old)) = old
         THEN new \o SubSeq(s, Len(old) + 1, Len(s))
         ELSE <<Head(s)>> \o ReplaceAll_First(Tail(s), old, new)

\* strings.ReplaceAll(s, old, new) for a non-empty old: the non-overlapping
\* occurrences of old, found from the left, are replaced by new.
RECURSIVE ReplaceAll(_, _, _)
ReplaceAll(s, old, new) ==
    IF \A i \in DOMAIN s : s[i] # old[1] THEN s
    ELSE IF Len(s) < Len(old) THEN s
    ELSE IF SubSeq(s, 1, Len(old)) = old
         THEN new \o ReplaceAll(SubSeq(s, Len(old) + 1, Len(s)), old, new)
         ELSE <<Head(s)>> \o ReplaceAll(Tail(s), old, new)

(***************************************************************************)
(* Configuration structures.                                               *)
(***************************************************************************)
Plugin(name) == [Name |-> name]

Route(name, paths, meths, plugins) ==
    [Name |-> name, Paths |-> paths, Methods |-> meths, Plugins |-> plugins]

Service(name, plugins, routes) ==
    [Name |-> name, Plugins |-> plugins, Routes |-> routes]

(***************************************************************************)
(* hasAuthPlugin                                                           *)
(***************************************************************************)
hasAuthPlugin_RouteOnly(rt, svc) ==
    \E i \in DOMAIN rt.Plugins : rt.Plugins[i].Name = "auth"

hasAuthPlugin(rt, svc) ==
    \/ \E i \in DOMAIN rt.Plugins : rt.Plugins[i].Name = "auth"
    \/ \E i \in DOMAIN svc.Plugins : svc.Plugins[i].Name = "auth"

(***************************************************************************)
(* expandRegexPath                                                         *)
(***************************************************************************)
HexClass == "[0-9a-fA-F-]+"
AlnumClass == "[a-zA-Z0-9_-]+"
NonSlashClass == "[^/]+"
Wildcard == "(.*)"

\* The map literal of expandRegexPath, entry by entry: <<key, value>>.
replacements == <<
    << <<"(?<client_id>", HexClass, ")">>,    <<"3a45625e-fd29-47a5-8294-e30fe2d3d391">> >>,
    << <<"(?<seat_id>", HexClass, ")">>,      <<"123e4567-e89b-12d3-a456-426614174000">> >>,
    << <<"(?<invite_token>", HexClass, ")">>, <<"987fcdeb-51a2-43e1-b210-0123456789ab">> >>,
    << <<"(?<test_id>", HexClass, ")">>,      <<"test-id-123">> >>,
    << <<"(?<user_id>", NonSlashClass, ")">>, <<"user123">> >>,
    << <<"(?<embed_id>", HexClass, ")">>,     <<"embed-456">> >>,
    << <<HexClass>>,                          <<"abc123def456">> >>,
    << <<AlnumClass>>,                        <<"test-value">> >>,
    << <<NonSlashClass>>,                     <<"example">> >>,
    << <<Wildcard>>,                          <<"path">> >> >>

\* One iteration of "for pattern, replacement := range replacements" from
\* every loop state of S.  Go leaves the iteration order of a map
\* unspecified, so the next entry is any entry not yet visited.
ExpandStep(S) ==
    UNION { { <<ReplaceAll(x[1], replacements[k][1], replacements[k][2]), x[2] \ {k}>>
              : k \in x[2] } : x \in S }

RECURSIVE ExpandLoop(_)
ExpandLoop(S) ==
    IF \A x \in S : x[2] = {} THEN { x[1] : x \in S }
    ELSE ExpandLoop(ExpandStep(S))

\* The set of strings expandRegexPath(p) can return.
expandRegexPath(p) == ExpandLoop({<<p, DOMAIN replacements>>})

(***************************************************************************)
(* handleTemplating                                                        *)
(*                                                                         *)
(* In templated text the characters $ { } : ? = are tokens of their own;   *)
(* every other token is a run of characters other than those six.  The     *)
(* environment is a function from the names that are set to their values.  *)
(***************************************************************************)
ServiceAddress == "SERVICE_ADDRESS"

\* os.Getenv: the value of a variable that is set, "" for any other name.
Getenv(env, name) == IF name \in DOMAIN env THEN env[name] ELSE <<>>

\* The first index i >= from with s[i] in stop, Len(s) + 1 when there is none.
RECURSIVE RunEnd(_, _, _)
RunEnd(s, from, stop) ==
    IF from > Len(s) \/ s[from] \in stop THEN from
    ELSE RunEnd(s, from + 1, stop)

MatchEnd_AnyOp(s, i) ==
    IF ~(i + 1 <= Len(s) /\ s[i] = "$" /\ s[i + 1] = "{") THEN 0
    ELSE LET n == RunEnd(s, i + 2, {":", "}"})
             e == RunEnd(s, n + 2, {"}"})
         IN  IF n = i + 2 \/ n > Len(s) THEN 0
             ELSE IF s[n] = "}" THEN n
             ELSE IF n + 1 <= Len(s) /\ s[n + 1] # "}" /\ e <= Len(s) THEN e
             ELSE 0

\* The match of \$\{([^:}]+)(:[?=][^}]*)?\} that starts at index i: the index
\* of its last token, 0 when there is no match at i.
MatchEnd(s, i) ==
    IF ~(i + 1 <= Len(s) /\ s[i] = "$" /\ s[i + 1] = "{") THEN 0
    ELSE LET n == RunEnd(s, i + 2, {":", "}"})
             e == RunEnd(s, n + 2, {"}"})
         IN  IF n = i + 2 \/ n > Len(s) THEN 0
             ELSE IF s[n] = "}" THEN n
             ELSE IF n + 1 <= Len(s) /\ s[n + 1] \in {"?", "="} /\ e <= Len(s) THEN e
             ELSE 0

\* strings.Split(x, ":")[0]
SplitHead(x) == SubSeq(x, 1, RunEnd(x, 1, {":"}) - 1)

TemplateValue_LiteralDefault(match, env) ==
    LET inner == SubSeq(match, 3, Len(match) - 1)
        envVar == SplitHead(inner)
        value == Getenv(env, envVar)
    IN  IF value # <<>> THEN value
        ELSE IF Len(inner) > Len(envVar) + 1
             THEN SubSeq(inner, Len(envVar) + 3, Len(inner))
        ELSE IF ServiceAddress \in Range(envVar)
             THEN <<"http://services.sms.community:10000">>
        ELSE <<"http://placeholder">>

\* The function handed to ReplaceAllFunc.
TemplateValue(match, env) ==
    LET envVar == SplitHead(SubSeq(match, 3, Len(match) - 1))
        value == Getenv(env, envVar)
    IN  IF value # <<>> THEN value
        ELSE IF ServiceAddress \in Range(envVar)
             THEN <<"http://services.sms.community:10000">>
        ELSE <<"http://placeholder">>

\* re.ReplaceAllFunc from index i on: leftmost matches, left to right.
RECURSIVE ReplaceAllFunc(_, _, _)
ReplaceAllFunc(s, i, env) ==
    IF i > Len(s) THEN <<>>
    ELSE LET e == MatchEnd(s, i)
         IN  IF e # 0
             THEN TemplateValue(SubSeq(s, i, e), env) \o ReplaceAllFunc(s, e + 1, env)
             ELSE <<s[i]>> \o ReplaceAllFunc(s, i + 1, env)

handleTemplating(data, env) == ReplaceAllFunc(data, 1, env)

(***************************************************************************)
(* printSummary                                                            *)
(***************************************************************************)
TestResult(svc, rt, p, method, requiresAuth, statusCode, error, message) ==
    [Service |-> svc, Route |-> rt, Path |-> p, Method |-> method,
     RequiresAuth |-> requiresAuth, StatusCode |-> statusCode, Error |-> error,
     Message |-> message]

\* m[k]++ on a Go map
Incr(m, k) == IF k \in DOMAIN m THEN [m EXCEPT ![k] = @ + 1] ELSE m @@ (k :> 1)

Tally_NoElse(acc, result) ==
    LET a1 == [acc EXCEPT !.byService = Incr(@, result.Service),
                          !.byStatusCode = Incr(@, result.StatusCode)]
        a2 == IF result.StatusCode >= 200 /\ result.StatusCode < 400
              THEN [a1 EXCEPT !.successful = @ + 1] ELSE a1
        a3 == IF result.StatusCode = 401
              THEN [a2 EXCEPT !.authFailed = @ + 1] ELSE a2
    IN  IF result.StatusCode >= 400 \/ result.Error # None
        THEN [a3 EXCEPT !.otherErrors = @ + 1] ELSE a3

Tally_OrderDependent(acc, result) ==
    LET a1 == [acc EXCEPT !.byService = Incr(@, result.Service),
                          !.byStatusCode = Incr(@, result.StatusCode)]
    IN  IF result.StatusCode >= 200 /\ result.StatusCode < 400
        THEN (IF acc.otherErrors = 0 THEN [a1 EXCEPT !.successful = @ + 1] ELSE a1)
        ELSE IF result.StatusCode = 401
        THEN [a1 EXCEPT !.authFailed = @ + 1]
        ELSE IF result.StatusCode >= 400 \/ result.Error # None
        THEN [a1 EXCEPT !.otherErrors = @ + 1]
        ELSE a1

\* The body of the first loop of printSummary.
Tally(acc, result) ==
    LET a1 == [acc EXCEPT !.byService = Incr(@, result.Service),
                          !.byStatusCode = Incr(@, result.StatusCode)]
    IN  IF result.StatusCode >= 200 /\ result.StatusCode < 400
        THEN [a1 EXCEPT !.successful = @ + 1]
        ELSE IF result.StatusCode = 401
        THEN [a1 EXCEPT !.authFailed = @ + 1]
        ELSE IF result.StatusCode >= 400 \/ result.Error # None
        THEN [a1 EXCEPT !.otherErrors = @ + 1]
        ELSE a1

Problematic_Any401(result) == result.StatusCode = 401

\* The condition of the second loop of printSummary.
Problematic(result) == result.StatusCode = 401 /\ ~result.RequiresAuth

RECURSIVE SummaryLoop(_, _, _)
SummaryLoop(rs, i, acc) ==
    IF i > Len(rs) THEN acc
    ELSE SummaryLoop(rs, i + 1, Tally(acc, rs[i]))

RECURSIVE ProblematicLoop(_, _)
ProblematicLoop(rs, i) ==
    IF i > Len(rs) THEN <<>>
    ELSE (IF Problematic(rs[i]) THEN <<rs[i]>> ELSE <<>>)
         \o ProblematicLoop(rs, i + 1)

\* What printSummary prints.
printSummary(rs) ==
    LET acc == SummaryLoop(rs, 1,
                   [successful |-> 0, authFailed |-> 0, otherErrors |-> 0,
                    byService |-> <<>>, byStatusCode |-> <<>>])
    IN  [total |-> Len(rs), successful |-> acc.successful,
         authFailed |-> acc.authFailed, otherErrors |-> acc.otherErrors,
         byService |-> acc.byService, byStatusCode |-> acc.byStatusCode,
         problematic |-> ProblematicLoop(rs, 1)]

(***************************************************************************)
(* Inputs of the pure functions.                                           *)
(***************************************************************************)
PluginNames == {"auth", "Auth", "key-auth", "cors"}
PluginLists == SeqsUpTo({ Plugin(n) : n \in PluginNames }, MaxPlugins)

AuthInputs ==
    { [route |-> Route("r", <<>>, <<>>, rp), service |-> Service(<<"s">>, sp, <<>>)]
      : rp \in PluginLists, sp \in PluginLists }

CaptureSegments ==
    { <<"(?<test_id>", HexClass, ")">>, <<"(?<embed_id>", HexClass, ")">>,
      <<"(?<user_id>", HexClass, ")">>, <<"(?<user_id>", NonSlashClass, ")">> }
BareSegments == { <<c>> : c \in {HexClass, AlnumClass, NonSlashClass, Wildcard, "static"} }
PathSegments == CaptureSegments \cup BareSegments

RECURSIVE PathsOf(_)
PathsOf(n) ==
    IF n = 0 THEN {<<>>}
    ELSE LET P == PathsOf(n - 1)
         IN P \cup { p \o <<"/">> \o s : p \in P, s \in PathSegments }

PathInputs == PathsOf(MaxSegments)

\* Templated text is built from pieces: literal text, ${NAME}, ${NAME:=DEFAULT}
\* and ${NAME:?}, and besides these ${NAME:-DEFAULT}, whose operator the regexp
\* does not list, and ${NAME:=${INNER}} and ${NAME:-${INNER}}, whose default
\* holds a placeholder.
VarNames == { <<"API_URL">>, <<"API_", ServiceAddress>>, <<"HOST">> }
EnvNames == { <<"API_URL">>, <<"API_", ServiceAddress>> }
EnvValues == { <<>>, <<"https://api.example.com">> }
Defaults == { <<>>, <<"http", ":", "//127.0.0.1", ":", "8001">> }
Environments == UNION { [S -> EnvValues] : S \in SUBSET EnvNames }

LiteralPieces == { [kind |-> "text", text |-> <<t>>] : t \in {"url", "}"} }
BarePieces == { [kind |-> "bare", name |-> n] : n \in VarNames }
DefaultPieces ==
    { [kind |-> "default", name |-> n, op |-> "=", default |-> d] : n \in VarNames, d \in Defaults }
    \cup { [kind |-> "default", name |-> n, op |-> "?", default |-> <<>>] : n \in VarNames }
OtherPieces ==
    { [kind |-> "other", name |-> <<"HOST">>, op |-> "-",
       default |-> <<"http", ":", "//127.0.0.1", ":", "8001">>] }
NestedPieces ==
    { [kind |-> "nested", name |-> <<"HOST">>, op |-> o, inner |-> <<"API_URL">>] : o \in {"=", "-"} }
Pieces == LiteralPieces \cup BarePieces \cup DefaultPieces \cup OtherPieces \cup NestedPieces

RenderPiece(p) ==
    CASE p.kind = "text" -> p.text
      [] p.kind = "bare" -> <<"$", "{">> \o p.name \o <<"}">>
      [] p.kind \in {"default", "other"} ->
             <<"$", "{">> \o p.name \o <<":", p.op>> \o p.default \o <<"}">>
      [] p.kind = "nested" ->
             <<"$", "{">> \o p.name \o <<":", p.op, "$", "{">> \o p.inner \o <<"}", "}">>

RECURSIVE Render(_)
Render(ps) == IF ps = <<>> THEN <<>> ELSE RenderPiece(Head(ps)) \o Render(Tail(ps))

TemplateInputs ==
    { [pieces |-> ps, data |-> Render(ps), env |-> env]
      : ps \in SeqsUpTo(Pieces, MaxPieces), env \in Environments }

\* Outcomes as testEndpoint builds them: an error comes with status code 0.
OutcomeKinds ==
    { [StatusCode |-> 0, Error |-> "transport"], [StatusCode |-> 0, Error |-> None],
      [StatusCode |-> 101, Error |-> None], [StatusCode |-> 200, Error |-> None],
      [StatusCode |-> 401, Error |-> None], [StatusCode |-> 500, Error |-> None] }
Outcomes ==
    { TestResult(svc, "r", <<"/", "static">>, "GET", a, k.StatusCode, k.Error, "")
      : svc \in {<<"api">>, <<"web">>}, a \in BOOLEAN, k \in OutcomeKinds }
SummaryInputs == SeqsUpTo(Outcomes, MaxOutcomes)

\* Responses handed to the message extraction of testEndpoint.
ErrorsMembers ==
    { [type |-> "absent"], [type |-> "string", value |-> "oops"],
      [type |-> "array", items |-> <<>>],
      [type |-> "array", items |-> << [type |-> "object", message |-> [type |-> "string", value |-> "first"]] >>],
      [type |-> "array", items |-> << [type |-> "object", message |-> [type |-> "absent"]] >>],
      [type |-> "array", items |-> << [type |-> "object", message |-> [type |-> "number", value |-> "7"]] >>],
      [type |-> "array", items |-> << [type |-> "string", value |-> "oops"] >>] }
MessageMembers ==
    { [type |-> "absent"], [type |-> "string", value |-> "top"], [type |-> "number", value |-> "7"] }
Bodies ==
    { [kind |-> "empty"], [kind |-> "null"], [kind |-> "text", text |-> "Internal Server Error"] }
    \cup { [kind |-> "json", errors |-> e, message |-> m] : e \in ErrorsMembers, m \in MessageMembers }
StatusCodes == {200, 302, 399, 400, 401, 500}
ResponseInputs == { [statusCode |-> c, body |-> b] : c \in StatusCodes, b \in Bodies }

\* expandRegexPath tabulated over the paths of the model.
ExpandTable == [p \in PathInputs |-> expandRegexPath(p)]

(***************************************************************************)
(* testEndpoint                                                            *)
(***************************************************************************)
\* A response body: empty, the JSON text null, text that is not a JSON object,
\* or a JSON object given by its "errors" and "message" members (JsonAbsent
\* when absent).
EmptyBody == [kind |-> "empty"]
NullBody == [kind |-> "null"]
TextBody(text) == [kind |-> "text", text |-> text]
JsonBody(errors, message) == [kind |-> "json", errors |-> errors, message |-> message]

\* JSON values as json.Unmarshal hands them over in an interface{}.
JsonString(x) == [type |-> "string", value |-> x]
JsonNumber(x) == [type |-> "number", value |-> x]
JsonObject(message) == [type |-> "object", message |-> message]
JsonArray(items) == [type |-> "array", items |-> items]
JsonAbsent == [type |-> "absent"]
IsString(v) == v.type = "string"

\* result.Message as set from the response.  json.Unmarshal of null into the
\* map succeeds and leaves it nil, so that no member is found.
ResponseMessage(statusCode, body) ==
    IF statusCode < 400 \/ body.kind = "empty" THEN ""
    ELSE IF body.kind = "null" THEN ""
    ELSE IF body.kind = "json"
         THEN IF body.errors.type = "array" /\ Len(body.errors.items) > 0
              THEN LET first == body.errors.items[1]
                   IN  IF first.type = "object" /\ IsString(first.message)
                       THEN first.message.value ELSE ""
              ELSE IF IsString(body.message) THEN body.message.value ELSE ""
         ELSE body.text

InvalidEscape == "%zz"

\* url.Parse, called by http.NewRequest, rejects a malformed percent escape.
ValidURL(url) == \A i \in DOMAIN url : url[i] # InvalidEscape

BodyMethods == {"POST", "PUT", "PATCH"}

NewRequest_AlwaysToken(method, url, requiresAuth) ==
    [method |-> method, url |-> url,
     body |-> IF method \in BodyMethods THEN "{\"test\": \"data\"}" ELSE "",
     header |-> (IF method \in BodyMethods
                 THEN [h \in {"Content-Type"} |-> "application/json"] ELSE <<>>)
                @@ (IF flags.authToken # ""
                    THEN [h \in {"Authorization"} |-> <<"Bearer ", flags.authToken>>]
                    ELSE <<>>)]

\* The request testEndpoint builds.
NewRequest(method, url, requiresAuth) ==
    [method |-> method, url |-> url,
     body |-> IF method \in BodyMethods THEN "{\"test\": \"data\"}" ELSE "",
     header |-> (IF method \in BodyMethods
                 THEN [h \in {"Content-Type"} |-> "application/json"] ELSE <<>>)
                @@ (IF requiresAuth /\ flags.authToken # ""
                    THEN [h \in {"Authorization"} |-> <<"Bearer ", flags.authToken>>]
                    ELSE <<>>)]

(***************************************************************************)
(* main and testRoutes: Spec.                                              *)
(***************************************************************************)
\* strings.Contains(path, "(?<"): the tokens that hold "(?<".
CaptureOpens ==
    {"(?<client_id>", "(?<seat_id>", "(?<invite_token>", "(?<test_id>", "(?<user_id>",
     "(?<embed_id>"}
ContainsCapture(p) == \E i \in DOMAIN p : p[i] \in CaptureOpens

SkippedService_NoLegacy(svc) ==
    \/ \E i \in DOMAIN svc.Name : svc.Name[i] = "test"
    \/ \E i \in DOMAIN svc.Name : svc.Name[i] = "health-check"
    \/ svc.Name = <<"atlantis">>

\* The services testRoutes skips.  No token of a service name other than
\* "test" and "health-check" holds one of these two words.
SkippedService(svc) ==
    \/ \E i \in DOMAIN svc.Name : svc.Name[i] = "test"
    \/ \E i \in DOMAIN svc.Name : svc.Name[i] = "health-check"
    \/ svc.Name = <<"atlantis">>
    \/ svc.Name = <<"atlantis", "-legacy">>

DefaultMethods_NoPatch == <<"GET", "POST", "PUT", "DELETE">>

DefaultMethods == <<"GET", "POST", "PUT", "DELETE", "PATCH">>

\* Inputs of a run.
StaticPath == <<"/", "static">>
RoutePool ==
    { Route("open", <<StaticPath>>, <<>>, <<>>),
      Route("users", << <<"/", "(?<user_id>", NonSlashClass, ")">>, <<"/", Wildcard>> >>,
            <<"GET", "PUT">>, <<Plugin("auth")>>),
      Route("broken", << <<"/", InvalidEscape>> >>, <<"GET", "POST">>, <<Plugin("cors")>>),
      Route("empty", <<>>, <<"GET">>, <<>>) }
\* Service names: one the loop probes in every shape, four it skips, and two
\* that resemble a skipped one ("Test" capitalised, "atlantis" with a suffix).
ProbedNames == { <<"api">> }
SkippedNames ==
    { <<"web-", "test">>, <<"health-check">>, <<"atlantis">>, <<"atlantis", "-legacy">> }
LookalikeNames == { <<"api-", "Test">>, <<"atlantis", "-v2">> }
ServiceNames == ProbedNames \cup SkippedNames \cup LookalikeNames
ServicePool ==
    { Service(n, pl, rs) : n \in ProbedNames, pl \in {<<>>, <<Plugin("auth")>>},
                           rs \in SeqsUpTo(RoutePool, MaxRoutes) }
    \cup { Service(n, <<>>, <<Route("open", <<StaticPath>>, <<>>, <<>>)>>)
            : n \in SkippedNames \cup LookalikeNames }
Configs == SeqsUpTo(ServicePool, MaxServices)
Files == { [status |-> "ok", config |-> [Services |-> c]] : c \in Configs }
             \cup { [status |-> "unreadable"], [status |-> "invalid"] }
Flags ==
    [ dryRun : BOOLEAN, maxRequests : 0..MaxBudget, testAuth : BOOLEAN,
      testUnauth : BOOLEAN, authToken : {"", "secret"},
      baseURL : { <<"http://127.0.0.1:8081">> } ]

\* What the probed server can answer.
Responses ==
    { [StatusCode |-> 200, Body |-> EmptyBody],
      [StatusCode |-> 401, Body |-> JsonBody(JsonAbsent, JsonString("Unauthorized"))],
      [StatusCode |-> 404,
       Body |-> JsonBody(JsonArray(<<JsonObject(JsonString("Not Found"))>>), JsonAbsent)],
      [StatusCode |-> 429, Body |-> EmptyBody],
      [StatusCode |-> 500, Body |-> TextBody("Internal Server Error")] }

\* The probes so far that the network or the server failed.
Failed(result) == result.Error = "transport" \/ result.StatusCode \notin {0, 200}
Failures == Cardinality({ i \in DOMAIN results : Failed(results[i]) })

\* var config *KongConfig before readKongConfig has returned: main reads no
\* member of it.
NoConfig == [Services |-> <<>>]

CallsIdle == fn = None /\ arg = <<>> /\ rets = <<>>

Init ==
    /\ file \in Files
    /\ flags \in Flags
    /\ config = NoConfig
    /\ pc = "main"
    /\ si = 0 /\ ri = 0 /\ pi = 0 /\ mi = 0
    /\ hasAuth = FALSE /\ methods = <<>> /\ path = <<>>
    /\ results = <<>>
    /\ requestCount = 0
    /\ req = <<>>
    /\ summary = <<>>
    /\ CallsIdle

service == config.Services[si]
route == service.Routes[ri]

readKongConfig_IgnoreParse(f) ==
    IF f.status = "unreadable" THEN [err |-> "read", config |-> [Services |-> <<>>]]
    ELSE IF f.status = "invalid" THEN [err |-> None, config |-> [Services |-> <<>>]]
    ELSE [err |-> None, config |-> f.config]

\* readKongConfig: the error of os.ReadFile or of yaml.Unmarshal, else the
\* configuration.  On an error the *KongConfig returned is nil; the record
\* carries an empty configuration in its place, which main never reads.
readKongConfig(f) ==
    IF f.status = "unreadable" THEN [err |-> "read", config |-> [Services |-> <<>>]]
    ELSE IF f.status = "invalid" THEN [err |-> "yaml", config |-> [Services |-> <<>>]]
    ELSE [err |-> None, config |-> f.config]

\* main: readKongConfig fails, the message is printed, os.Exit(1).
ReadKongConfigFails ==
    /\ pc = "main"
    /\ readKongConfig(file).err # None
    /\ pc' = "exit1"
    /\ UNCHANGED <<file, flags, config, loopvars, results, requestCount, req, summary, callvars>>

\* main: readKongConfig returns the configuration, testRoutes starts.
ReadKongConfig ==
    /\ pc = "main"
    /\ readKongConfig(file).err = None
    /\ config' = readKongConfig(file).config
    /\ si' = 1
    /\ pc' = "services"
    /\ UNCHANGED <<file, flags, ri, pi, mi, hasAuth, methods, path, results, requestCount,
                   req, summary, callvars>>

SkipService ==
    /\ pc = "services"
    /\ si <= Len(config.Services)
    /\ SkippedService(service)
    /\ si' = si + 1
    /\ UNCHANGED <<file, flags, config, pc, ri, pi, mi, hasAuth, methods, path, results,
                   requestCount, req, summary, callvars>>

EnterService ==
    /\ pc = "services"
    /\ si <= Len(config.Services)
    /\ ~SkippedService(service)
    /\ ri' = 1
    /\ pc' = "routes"
    /\ UNCHANGED <<file, flags, config, si, pi, mi, hasAuth, methods, path, results,
                   requestCount, req, summary, callvars>>

\* The loop over the services ends: return results.
ServicesDone ==
    /\ pc = "services"
    /\ si > Len(config.Services)
    /\ pc' = "returned"
    /\ UNCHANGED <<file, flags, config, loopvars, results, requestCount, req, summary, callvars>>

RouteSkipped_AuthOnly(h) == h /\ ~flags.testAuth

\* The two tests of the toggles: the route is left out.
RouteSkipped(h) == (h /\ ~flags.testAuth) \/ (~h /\ ~flags.testUnauth)

SkipRoute ==
    /\ pc = "routes"
    /\ ri <= Len(service.Routes)
    /\ LET h == hasAuthPlugin(route, service)
       IN  /\ RouteSkipped(h)
           /\ hasAuth' = h
    /\ ri' = ri + 1
    /\ UNCHANGED <<file, flags, config, pc, si, pi, mi, methods, path, results,
                   requestCount, req, summary, callvars>>

EnterRoute ==
    /\ pc = "routes"
    /\ ri <= Len(service.Routes)
    /\ LET h == hasAuthPlugin(route, service)
       IN  /\ ~RouteSkipped(h)
           /\ hasAuth' = h
    /\ methods' = IF Len(route.Methods) = 0 THEN DefaultMethods ELSE route.Methods
    /\ pi' = 1
    /\ pc' = "paths"
    /\ UNCHANGED <<file, flags, config, si, ri, mi, path, results, requestCount, req,
                   summary, callvars>>

RoutesDone ==
    /\ pc = "routes"
    /\ ri > Len(service.Routes)
    /\ si' = si + 1
    /\ pc' = "services"
    /\ UNCHANGED <<file, flags, config, ri, pi, mi, hasAuth, methods, path, results,
                   requestCount, req, summary, callvars>>

EnterPath ==
    /\ pc = "paths"
    /\ pi <= Len(route.Paths)
    /\ IF ContainsCapture(route.Paths[pi])
       THEN path' \in ExpandTable[route.Paths[pi]]
       ELSE path' = route.Paths[pi]
    /\ mi' = 1
    /\ pc' = "methods"
    /\ UNCHANGED <<file, flags, config, si, ri, pi, hasAuth, methods, results, requestCount,
                   req, summary, callvars>>

PathsDone ==
    /\ pc = "paths"
    /\ pi > Len(route.Paths)
    /\ ri' = ri + 1
    /\ pc' = "routes"
    /\ UNCHANGED <<file, flags, config, si, pi, mi, hasAuth, methods, path, results,
                   requestCount, req, summary, callvars>>

MethodsDone ==
    /\ pc = "methods"
    /\ mi > Len(methods)
    /\ pi' = pi + 1
    /\ pc' = "paths"
    /\ UNCHANGED <<file, flags, config, si, ri, mi, hasAuth, methods, path, results,
                   requestCount, req, summary, callvars>>

BudgetLeft_OffByOne == ~(flags.maxRequests > 0 /\ requestCount > flags.maxRequests)

\* The negation of the loop's test of the budget.
BudgetLeft == ~(flags.maxRequests > 0 /\ requestCount >= flags.maxRequests)

\* if *maxRequests > 0 && requestCount >= *maxRequests { return results }
BudgetReached ==
    /\ pc = "methods"
    /\ mi <= Len(methods)
    /\ ~BudgetLeft
    /\ pc' = "returned"
    /\ UNCHANGED <<file, flags, config, loopvars, results, requestCount, req, summary, callvars>>

\* The TestResult testEndpoint starts from.
NewResult == TestResult(service.Name, route.Name, path, methods[mi], hasAuth, 0, None, "")

Record_Prepend(result) ==
    /\ results' = <<result>> \o results
    /\ requestCount' = requestCount + 1
    /\ pc' = "sleep"

Record_NoPaceOn429(result) ==
    /\ results' = Append(results, result)
    /\ requestCount' = requestCount + 1
    /\ pc' = IF result.StatusCode = 429 THEN "methods" ELSE "sleep"

Record_DryRunFree(result) ==
    /\ results' = Append(results, result)
    /\ requestCount' = IF result.Message = "DRY RUN" THEN requestCount ELSE requestCount + 1
    /\ pc' = "sleep"

Record_AbortOnError(result) ==
    /\ results' = Append(results, result)
    /\ requestCount' = requestCount + 1
    /\ pc' = IF result.Error # None THEN "returned" ELSE "sleep"

\* results = append(results, result); requestCount++, then the loop sleeps.
Record(result) ==
    /\ results' = Append(results, result)
    /\ requestCount' = requestCount + 1
    /\ pc' = "sleep"

Probing == pc = "methods" /\ mi <= Len(methods) /\ BudgetLeft

DryRun_UnauthOnly == flags.dryRun /\ ~hasAuth

\* testEndpoint: if *dryRun
DryRun == flags.dryRun

\* testEndpoint under --dry-run.
DryRunProbe ==
    /\ Probing
    /\ DryRun
    /\ Record([NewResult EXCEPT !.Message = "DRY RUN"])
    /\ UNCHANGED <<file, flags, config, loopvars, req, summary, callvars>>

\* testEndpoint: http.NewRequest returns an error, which is recorded.
BuildRequestFails ==
    /\ Probing
    /\ ~DryRun
    /\ ~ValidURL(flags.baseURL \o path)
    /\ methods[mi] \notin BodyMethods
    /\ Record([NewResult EXCEPT !.Error = "request"])
    /\ UNCHANGED <<file, flags, config, loopvars, req, summary, callvars>>

\* testEndpoint: http.NewRequest returns a nil request and an error for a
\* method with a body; req.Header.Set on the nil request panics.
BuildRequestPanics ==
    /\ Probing
    /\ ~DryRun
    /\ ~ValidURL(flags.baseURL \o path)
    /\ methods[mi] \in BodyMethods
    /\ pc' = "panic"
    /\ UNCHANGED <<file, flags, config, loopvars, results, requestCount, req, summary, callvars>>

\* testEndpoint: the request is built and handed to client.Do.
SendRequest ==
    /\ Probing
    /\ ~DryRun
    /\ ValidURL(flags.baseURL \o path)
    /\ req' = <<NewRequest(methods[mi], flags.baseURL \o path, hasAuth)>>
    /\ pc' = "inflight"
    /\ UNCHANGED <<file, flags, config, loopvars, results, requestCount, summary, callvars>>

\* testEndpoint: client.Do returns an error.
TransportError ==
    /\ pc = "inflight"
    /\ Failures < MaxFailures
    /\ Record([NewResult EXCEPT !.Error = "transport"])
    /\ req' = <<>>
    /\ UNCHANGED <<file, flags, config, loopvars, summary, callvars>>

\* testEndpoint: client.Do returns a response.
Response ==
    /\ pc = "inflight"
    /\ \E resp \in Responses :
        /\ resp.StatusCode = 200 \/ Failures < MaxFailures
        /\ Record([NewResult EXCEPT !.StatusCode = resp.StatusCode,
                                    !.Message = ResponseMessage(resp.StatusCode, resp.Body)])
    /\ req' = <<>>
    /\ UNCHANGED <<file, flags, config, loopvars, summary, callvars>>

\* time.Sleep(100 * time.Millisecond), then the next method.
Sleep ==
    /\ pc = "sleep"
    /\ mi' = mi + 1
    /\ pc' = "methods"
    /\ UNCHANGED <<file, flags, config, si, ri, pi, hasAuth, methods, path, results,
                   requestCount, req, summary, callvars>>

\* main: printSummary(results)
PrintSummary ==
    /\ pc = "returned"
    /\ summary' = <<printSummary(results)>>
    /\ pc' = "done"
    /\ UNCHANGED <<file, flags, config, loopvars, results, requestCount, req, callvars>>

Next ==
    \/ ReadKongConfigFails
    \/ ReadKongConfig
    \/ SkipService
    \/ EnterService
    \/ ServicesDone
    \/ SkipRoute
    \/ EnterRoute
    \/ RoutesDone
    \/ EnterPath
    \/ PathsDone
    \/ MethodsDone
    \/ BudgetReached
    \/ DryRunProbe
    \/ BuildRequestFails
    \/ BuildRequestPanics
    \/ SendRequest
    \/ TransportError
    \/ Response
    \/ Sleep
    \/ PrintSummary

Spec == Init /\ [][Next]_vars

\* The program is one goroutine that runs until it returns, exits or panics,
\* and client.Do returns within its 10 s timeout: a step that can be taken is
\* taken.
SpecFair == Init /\ [][Next]_vars /\ WF_vars(Next)

(***************************************************************************)
(* Calls of the pure functions: SpecPure.                                  *)
(***************************************************************************)
RunIdle ==
    /\ file = None /\ flags = None /\ config = NoConfig
    /\ pc = "idle"
    /\ si = 0 /\ ri = 0 /\ pi = 0 /\ mi = 0
    /\ hasAuth = FALSE /\ methods = <<>> /\ path = <<>>
    /\ results = <<>>
    /\ requestCount = 0
    /\ req = <<>>
    /\ summary = <<>>

InitAuth == fn = "hasAuthPlugin" /\ arg \in AuthInputs /\ rets = <<>>
InitExpand == fn = "expandRegexPath" /\ arg \in PathInputs /\ rets = <<>>

InitTemplating == fn = "handleTemplating" /\ arg \in TemplateInputs /\ rets = <<>>
InitSummary == fn = "printSummary" /\ arg \in SummaryInputs /\ rets = <<>>

InitResponse == fn = "responseMessage" /\ arg \in ResponseInputs /\ rets = <<>>

InitPure ==
    RunIdle /\ (InitAuth \/ InitExpand \/ InitTemplating \/ InitSummary \/ InitResponse)

CallHasAuthPlugin ==
    /\ fn = "hasAuthPlugin"
    /\ Len(rets) < MaxCalls
    /\ rets' = Append(rets, hasAuthPlugin(arg.route, arg.service))
    /\ UNCHANGED <<fn, arg, runvars>>

CallExpandRegexPath ==
    /\ fn = "expandRegexPath"
    /\ Len(rets) < MaxCalls
    /\ \E r \in ExpandTable[arg] : rets' = Append(rets, r)
    /\ UNCHANGED <<fn, arg, runvars>>

CallHandleTemplating ==
    /\ fn = "handleTemplating"
    /\ Len(rets) < MaxCalls
    /\ rets' = Append(rets, handleTemplating(arg.data, arg.env))
    /\ UNCHANGED <<fn, arg, runvars>>

CallPrintSummary ==
    /\ fn = "printSummary"
    /\ Len(rets) < MaxCalls
    /\ rets' = Append(rets, printSummary(arg))
    /\ UNCHANGED <<fn, arg, runvars>>

\* testEndpoint from the response on: result.Message.
CallResponseMessage ==
    /\ fn = "responseMessage"
    /\ Len(rets) < MaxCalls
    /\ rets' = Append(rets, ResponseMessage(arg.statusCode, arg.body))
    /\ UNCHANGED <<fn, arg, runvars>>

NextPure ==
    \/ CallResponseMessage
    \/ CallHasAuthPlugin
    \/ CallExpandRegexPath
    \/ CallHandleTemplating
    \/ CallPrintSummary

SpecPure == InitPure /\ [][NextPure]_vars

(***************************************************************************)
(* Properties of the pure functions, checked under SpecPure.               *)
(***************************************************************************)
PluginNamesOf(plugins) == { plugins[i].Name : i \in DOMAIN plugins }
Called(f) == fn = f /\ rets # <<>>

\* C3 as stated: successful + authFailed + otherErrors <= len(outcomes), with
\* equality unless some outcome has status code 0 and no error.
SummaryBalanceZeroOnly ==
    fn = "printSummary" =>
        \A i \in DOMAIN rets :
            LET sum == rets[i].successful + rets[i].authFailed + rets[i].otherErrors
            IN  /\ sum <= Len(arg)
                /\ \/ sum = Len(arg)
                   \/ \E j \in DOMAIN arg : arg[j].StatusCode = 0 /\ arg[j].Error = None

\* C3, amended: successful + authFailed + otherErrors <= len(outcomes); every
\* outcome increments exactly one of the three counters except an outcome
\* with a status code below 200 and no error, which increments none.
SummaryBalance ==
    fn = "printSummary" =>
        \A i \in DOMAIN rets :
            LET sum == rets[i].successful + rets[i].authFailed + rets[i].otherErrors
                uncounted == { j \in DOMAIN arg : arg[j].StatusCode < 200 /\ arg[j].Error = None }
            IN  sum <= Len(arg) /\ sum = Len(arg) - Cardinality(uncounted)

SummaryBalanceWitness ==
    /\ Called("printSummary")
    /\ \E j \in DOMAIN arg : arg[j].StatusCode = 101
    /\ \E j \in DOMAIN arg : arg[j].StatusCode = 401
    /\ rets[1].successful + rets[1].authFailed + rets[1].otherErrors = Len(arg) - 1

\* C4: the problematic routes are exactly the outcomes with status code 401
\* and RequiresAuth false; no outcome with RequiresAuth true is listed.
ProblematicRoutes ==
    fn = "printSummary" =>
        \A i \in DOMAIN rets :
            /\ \A e \in Range(rets[i].problematic) :
                   e \in Range(arg) /\ e.StatusCode = 401 /\ ~e.RequiresAuth
            /\ \A j \in DOMAIN arg :
                   (arg[j].StatusCode = 401 /\ ~arg[j].RequiresAuth)
                       => arg[j] \in Range(rets[i].problematic)

ProblematicRoutesWitness ==
    /\ Called("printSummary")
    /\ rets[1].problematic # <<>>
    /\ \E j \in DOMAIN arg : arg[j].StatusCode = 401 /\ arg[j].RequiresAuth

\* C5: hasAuthPlugin is true iff a plugin named exactly "auth" is among the
\* route's plugins or among the service's plugins.
AuthPluginIff ==
    fn = "hasAuthPlugin" =>
        \A i \in DOMAIN rets :
            rets[i] = ("auth" \in PluginNamesOf(arg.route.Plugins)
                                   \cup PluginNamesOf(arg.service.Plugins))

AuthPluginIffWitness ==
    /\ Called("hasAuthPlugin")
    /\ rets[1]
    /\ "auth" \notin PluginNamesOf(arg.route.Plugins)
    /\ "key-auth" \in PluginNamesOf(arg.route.Plugins)

\* C6: a placeholder becomes the non-empty environment value of its name,
\* else the service address when the name contains SERVICE_ADDRESS, else the
\* generic placeholder; the written default is never used and other text is
\* unchanged.
ResolvedPiece(p, env) ==
    IF p.kind = "text" THEN p.text
    ELSE IF p.name \in DOMAIN env /\ env[p.name] # <<>> THEN env[p.name]
    ELSE IF \E i \in DOMAIN p.name : p.name[i] = "SERVICE_ADDRESS"
         THEN <<"http://services.sms.community:10000">>
    ELSE <<"http://placeholder">>

RECURSIVE Resolved(_, _)
Resolved(ps, env) ==
    IF ps = <<>> THEN <<>> ELSE ResolvedPiece(Head(ps), env) \o Resolved(Tail(ps), env)

TemplatingPrecedence ==
    (/\ fn = "handleTemplating"
     /\ \A k \in DOMAIN arg.pieces : arg.pieces[k].kind \in {"text", "bare", "default"}) =>
        \A i \in DOMAIN rets : rets[i] = Resolved(arg.pieces, arg.env)

TemplatingPrecedenceWitness ==
    /\ Called("handleTemplating")
    /\ \E i \in DOMAIN arg.pieces :
           /\ arg.pieces[i].kind = "default"
           /\ arg.pieces[i].default # <<>>
           /\ arg.pieces[i].name \in DOMAIN arg.env
           /\ arg.env[arg.pieces[i].name] = <<>>
    /\ \E i \in DOMAIN arg.pieces : arg.pieces[i].kind = "text"
    /\ "http://services.sms.community:10000" \in Range(rets[1])

\* C8: two calls of expandRegexPath, or of hasAuthPlugin, on the same input
\* return the same value.
Deterministic ==
    fn \in {"expandRegexPath", "hasAuthPlugin"} =>
        \A i, j \in DOMAIN rets : rets[i] = rets[j]

\* C9: a named capture listed in the replacement table is always replaced,
\* as a whole, by its own entry's value.
ListedCaptures == { k \in DOMAIN replacements : Len(replacements[k][1]) = 3 }
Occurs(s, sub) == \E i \in 1..(Len(s) - Len(sub) + 1) : SubSeq(s, i, i + Len(sub) - 1) = sub

NamedCaptureWins ==
    fn = "expandRegexPath" =>
        \A i \in DOMAIN rets : \A k \in ListedCaptures :
            Occurs(arg, replacements[k][1]) =>
                /\ Occurs(rets[i], replacements[k][2])
                /\ replacements[k][1][1] \notin Range(rets[i])

\* C10: (?<user_id>[0-9a-fA-F-]+) is replaced as a whole by abc123def456.
UserIdHex == <<"(?<user_id>", "[0-9a-fA-F-]+", ")">>

UserIdHexExpanded ==
    (fn = "expandRegexPath" /\ Occurs(arg, UserIdHex)
        /\ Range(arg) \subseteq Range(UserIdHex) \cup {"/", "static"}) =>
        \A i \in DOMAIN rets : rets[i] = ReplaceAll(arg, UserIdHex, <<"abc123def456">>)

\* The literal the table gives for a bare generic pattern; any other token is
\* kept.
GenericLiteral(t) ==
    CASE t = "[0-9a-fA-F-]+" -> "abc123def456"
      [] t = "[a-zA-Z0-9_-]+" -> "test-value"
      [] t = "[^/]+" -> "example"
      [] t = "(.*)" -> "path"
      [] OTHER -> t

\* The segments of a path: the runs of tokens between its "/" tokens.
RECURSIVE SplitSlash(_)
SplitSlash(s) ==
    LET n == RunEnd(s, 1, {"/"})
    IN  IF n > Len(s) THEN <<s>>
        ELSE <<SubSeq(s, 1, n - 1)>> \o SplitSlash(SubSeq(s, n + 1, Len(s)))

\* C11: expandRegexPath rewrites every occurrence of a bare generic pattern to
\* its fixed literal and leaves the rest of the path untouched; a path with none
\* of the table's patterns is returned as it is.
BareRewritten ==
    fn = "expandRegexPath" =>
        \A i \in DOMAIN rets :
            LET in == SplitSlash(arg)
                out == SplitSlash(rets[i])
            IN  /\ Len(out) = Len(in)
                /\ \A k \in DOMAIN in :
                       Len(in[k]) = 1 => out[k] = <<GenericLiteral(in[k][1])>>
                /\ (\A k \in ListedCaptures : ~Occurs(arg, replacements[k][1]))
                       => rets[i] = [k \in DOMAIN arg |-> GenericLiteral(arg[k])]

BareRewrittenWitness ==
    /\ Called("expandRegexPath")
    /\ arg = <<"/", "[0-9a-fA-F-]+", "/", "[0-9a-fA-F-]+">>
    /\ rets[1] = <<"/", "abc123def456", "/", "abc123def456">>

\* C17: with API_SERVICE_ADDRESS not set in the environment, the placeholder
\* ${API_SERVICE_ADDRESS:=http://127.0.0.1:8001} is resolved to the fallback
\* written in it, http://127.0.0.1:8001.
LocalhostFallback == <<"http", ":", "//127.0.0.1", ":", "8001">>

WrittenFallbackUsed ==
    (/\ fn = "handleTemplating"
     /\ arg.data = <<"$", "{", "API_", "SERVICE_ADDRESS", ":", "=">> \o LocalhostFallback \o <<"}">>
     /\ <<"API_", "SERVICE_ADDRESS">> \notin DOMAIN arg.env) =>
        \A i \in DOMAIN rets : rets[i] = LocalhostFallback

\* C20: for a status >= 400 and a non-empty body the message is, for a JSON
\* object, errors[0].message when available, else the top-level message when
\* present (also when errors[0] yields no message string); for a body that is
\* not a JSON object, the raw text.  Below 400 the message is empty.
MessagePrecedence ==
    (fn = "responseMessage" /\ arg.body.kind \in {"json", "text"}) =>
        \A i \in DOMAIN rets :
            LET body == arg.body
                firstHasMessage ==
                    /\ body.errors.type = "array"
                    /\ body.errors.items # <<>>
                    /\ body.errors.items[1].type = "object"
                    /\ body.errors.items[1].message.type = "string"
            IN  rets[i] =
                    IF arg.statusCode < 400 THEN ""
                    ELSE IF body.kind = "text" THEN body.text
                    ELSE IF firstHasMessage THEN body.errors.items[1].message.value
                    ELSE IF body.message.type = "string" THEN body.message.value
                    ELSE ""

\* The permutations of a sequence.
PermutationsOf(s) ==
    { [i \in DOMAIN s |-> s[f[i]]] :
        f \in { g \in [DOMAIN s -> DOMAIN s] : \A i, j \in DOMAIN s : g[i] = g[j] => i = j } }

\* C24: the summary of a permutation of the outcomes has the same total, the
\* same three counts, the same counts per status code and per service, and
\* the same set of problematic routes.
SummaryCommutes ==
    fn = "printSummary" =>
        \A i \in DOMAIN rets : \A other \in PermutationsOf(arg) :
            LET permuted == printSummary(other)
            IN  /\ permuted.total = rets[i].total
                /\ permuted.successful = rets[i].successful
                /\ permuted.authFailed = rets[i].authFailed
                /\ permuted.otherErrors = rets[i].otherErrors
                /\ permuted.byStatusCode = rets[i].byStatusCode
                /\ permuted.byService = rets[i].byService
                /\ Range(permuted.problematic) = Range(rets[i].problematic)

SummaryCommutesWitness ==
    /\ Called("printSummary")
    /\ Len(arg) = 2
    /\ arg[1].StatusCode = 401 /\ ~arg[1].RequiresAuth
    /\ arg[2].StatusCode = 200
    /\ arg[1].Service # arg[2].Service
    /\ rets[1].problematic = <<arg[1]>>

\* C25 as stated: ${NAME:OP DEFAULT} is substituted for every operator OP, so
\* that no placeholder text is left in the output.
AnyOperatorRecognised ==
    fn = "handleTemplating" => \A i \in DOMAIN rets : "$" \notin Range(rets[i])

\* What a piece becomes: a placeholder with the operator = or ? (or none)
\* is substituted up to the first "}", so that a placeholder in its default is
\* not looked at and the second "}" stays; with any other operator the text is
\* kept and a placeholder inside it is substituted on its own.
ResolvedAnyPiece(p, env) ==
    LET value(name) == ResolvedPiece([kind |-> "bare", name |-> name], env)
    IN  CASE p.kind \in {"text", "bare", "default"} -> ResolvedPiece(p, env)
          [] p.kind = "other" -> <<"$", "{">> \o p.name \o <<":", p.op>> \o p.default \o <<"}">>
          [] p.kind = "nested" /\ p.op = "=" -> value(p.name) \o <<"}">>
          [] p.kind = "nested" /\ p.op # "=" ->
                 <<"$", "{">> \o p.name \o <<":", p.op>> \o value(p.inner) \o <<"}">>

RECURSIVE ResolvedAny(_, _)
ResolvedAny(ps, env) ==
    IF ps = <<>> THEN <<>> ELSE ResolvedAnyPiece(Head(ps), env) \o ResolvedAny(Tail(ps), env)

\* C25, amended: ${NAME:OP DEFAULT} is substituted only for the operators =
\* and ?; with another operator the text stays in the output.  The default of
\* a substituted placeholder is not parsed for nested placeholders.
OnlyListedOperators ==
    fn = "handleTemplating" =>
        \A i \in DOMAIN rets : rets[i] = ResolvedAny(arg.pieces, arg.env)

OnlyListedOperatorsWitness ==
    /\ Called("handleTemplating")
    /\ Len(arg.pieces) = 2
    /\ arg.pieces[1].kind = "other"
    /\ arg.pieces[2].kind = "nested" /\ arg.pieces[2].op = "="
    /\ arg.env = <<>>
    /\ rets[1] = <<"$", "{", "HOST", ":", "-", "http", ":", "//127.0.0.1", ":", "8001", "}",
                   "http://placeholder", "}">>

(***************************************************************************)
(* Properties of a run, checked under Spec.                                *)
(***************************************************************************)
RECURSIVE Concat(_)
Concat(ss) == IF ss = <<>> THEN <<>> ELSE Head(ss) \o Concat(Tail(ss))

FiveMethods == <<"GET", "POST", "PUT", "DELETE", "PATCH">>

\* The probes a route gives rise to: none when its classification is switched
\* off, else one per declared path and method, in that order.
ProbesOfRoute(svc, rt) ==
    LET auth == "auth" \in PluginNamesOf(rt.Plugins) \cup PluginNamesOf(svc.Plugins)
        ms == IF Len(rt.Methods) = 0 THEN FiveMethods ELSE rt.Methods
    IN  IF (auth /\ ~flags.testAuth) \/ (~auth /\ ~flags.testUnauth) THEN <<>>
        ELSE Concat([p \in DOMAIN rt.Paths |->
                        [m \in DOMAIN ms |->
                            [Service |-> svc.Name, Route |-> rt.Name, Template |-> rt.Paths[p],
                             Method |-> ms[m], RequiresAuth |-> auth]]])

ProbesOfService(svc) ==
    IF SkippedService(svc) THEN <<>>
    ELSE Concat([r \in DOMAIN svc.Routes |-> ProbesOfRoute(svc, svc.Routes[r])])

\* The probes derived from the configuration, in configuration order.
DerivedProbes == Concat([s \in DOMAIN config.Services |-> ProbesOfService(config.Services[s])])

InTestRoutes == pc \in {"services", "routes", "paths", "methods", "inflight", "sleep"}
HasReturned == pc \in {"returned", "done"}
Min(a, b) == IF a <= b THEN a ELSE b

\* C1: with maxRequests = N > 0 the request counter and the number of
\* outcomes never exceed N, and testRoutes returns exactly
\* min(N, number of derived probes) outcomes.
RequestBudget ==
    ((InTestRoutes \/ HasReturned \/ pc = "panic") /\ flags.maxRequests > 0) =>
        /\ requestCount <= flags.maxRequests
        /\ Len(results) <= flags.maxRequests
        /\ HasReturned => Len(results) = Min(flags.maxRequests, Len(DerivedProbes))

\* The budget ends the run between two methods of one path.
RequestBudgetWitness ==
    /\ pc = "returned"
    /\ flags.maxRequests > 0
    /\ Len(results) = flags.maxRequests
    /\ Len(results) < Len(DerivedProbes)
    /\ mi > 1 /\ mi <= Len(methods)
    /\ si <= Len(config.Services)

\* C2: under --dry-run no request is built or sent, and there is exactly one
\* outcome per derived probe, each "DRY RUN" with status code 0 and no error.
DryRunNoRequest ==
    ((InTestRoutes \/ HasReturned \/ pc = "panic") /\ flags.dryRun) =>
        LET derived == DerivedProbes
        IN  /\ pc \notin {"inflight", "panic"}
            /\ req = <<>>
            /\ Len(results) <= Len(derived)
            /\ \A i \in DOMAIN results :
                   /\ results[i].Message = "DRY RUN"
                   /\ results[i].StatusCode = 0
                   /\ results[i].Error = None
                   /\ results[i].Service = derived[i].Service
                   /\ results[i].Route = derived[i].Route
                   /\ results[i].Method = derived[i].Method
            /\ (HasReturned /\ flags.maxRequests = 0) => Len(results) = Len(derived)

DryRunNoRequestWitness ==
    /\ pc = "done"
    /\ flags.dryRun
    /\ flags.maxRequests = 0
    /\ Len(results) >= 7
    /\ \E i \in DOMAIN results : results[i].RequiresAuth
    /\ \E i \in DOMAIN results : results[i].Path = <<"/", InvalidEscape>>

\* C7: a route without methods is probed with GET, POST, PUT, DELETE, PATCH, in
\* that order, on each of its paths; a route with methods with exactly those,
\* in declared order.
MethodsProbed ==
    (InTestRoutes \/ HasReturned \/ pc = "panic") =>
        LET derived == DerivedProbes
        IN  /\ Len(results) <= Len(derived)
            /\ \A i \in DOMAIN results :
                   /\ results[i].Method = derived[i].Method
                   /\ results[i].Route = derived[i].Route
            /\ (HasReturned /\ flags.maxRequests = 0) => Len(results) = Len(derived)

MethodsProbedWitness ==
    /\ pc = "done"
    /\ flags.maxRequests = 0
    /\ Len(config.Services) = 2
    /\ \E i \in DOMAIN results :
           /\ i + 4 <= Len(results)
           /\ results[i].Route = "open"
           /\ [k \in 1..5 |-> results[i + k - 1].Method] = FiveMethods
    /\ \E i \in DOMAIN results :
           /\ i + 3 <= Len(results)
           /\ results[i].Route = "users"
           /\ [k \in 1..4 |-> results[i + k - 1].Method] = <<"GET", "PUT", "GET", "PUT">>

\* C12: when the configuration file cannot be read or does not parse, the run
\* ends at os.Exit(1): no probe is derived or executed and no summary is
\* printed, under --dry-run as well.
ConfigErrorFatal ==
    (pc # "idle" /\ file.status # "ok") =>
        /\ pc \in {"main", "exit1"}
        /\ results = <<>>
        /\ requestCount = 0
        /\ req = <<>>
        /\ summary = <<>>

ConfigErrorFatalWitness ==
    /\ pc = "exit1"
    /\ file.status = "invalid"
    /\ flags.dryRun
    /\ results = <<>>

\* C13: a probe that fails in transport is sent once and yields one outcome
\* with status code 0 and the error; the request in flight is always that of
\* the first probe without an outcome, and a run that returns carries one
\* outcome per derived probe within the budget, whichever probes failed.
TransportOnce ==
    (InTestRoutes \/ HasReturned \/ pc = "panic") =>
        LET derived == DerivedProbes
        IN  /\ Len(results) <= Len(derived)
            /\ \A i \in DOMAIN results :
                   /\ results[i].Error = "transport" =>
                          results[i].StatusCode = 0 /\ results[i].Message = ""
                   /\ results[i].Service = derived[i].Service
                   /\ results[i].Route = derived[i].Route
                   /\ results[i].Method = derived[i].Method
            /\ pc = "inflight" =>
                   /\ Len(req) = 1
                   /\ Len(results) < Len(derived)
                   /\ req[1].method = derived[Len(results) + 1].Method
            /\ pc # "inflight" => req = <<>>
            /\ HasReturned =>
                   Len(results) = IF flags.maxRequests > 0
                                  THEN Min(flags.maxRequests, Len(derived))
                                  ELSE Len(derived)

TransportOnceWitness ==
    /\ pc = "done"
    /\ flags.maxRequests = 0
    /\ \E i, j \in DOMAIN results :
           /\ i < j
           /\ results[i].Error = "transport"
           /\ results[i].Route = results[j].Route
           /\ results[j].StatusCode = 200

\* The classification of a route: a plugin named "auth" on it or on its service.
Classified(svc, rt) == "auth" \in PluginNamesOf(rt.Plugins) \cup PluginNamesOf(svc.Plugins)

\* The routes testRoutes considers: <<service, route>> over the services that
\* are not left out by name.
ConsideredRoutes ==
    UNION { { <<config.Services[s], config.Services[s].Routes[r]>>
              : r \in DOMAIN config.Services[s].Routes }
            : s \in { t \in DOMAIN config.Services : config.Services[t].Name \notin SkippedNames } }

\* C14: a route is left out exactly when the toggle of its classification is
\* false: without testAuth no outcome has RequiresAuth, without testUnauth
\* every outcome has it, without both there is no outcome, and with both no
\* route is left out for its classification.
RouteToggles ==
    (InTestRoutes \/ HasReturned \/ pc = "panic") =>
        /\ ~flags.testAuth => \A i \in DOMAIN results : ~results[i].RequiresAuth
        /\ ~flags.testUnauth => \A i \in DOMAIN results : results[i].RequiresAuth
        /\ (~flags.testAuth /\ ~flags.testUnauth) => (results = <<>> /\ requestCount = 0)
        /\ (HasReturned /\ flags.maxRequests = 0) =>
               \A x \in ConsideredRoutes :
                   LET c == Classified(x[1], x[2])
                   IN  x[2].Paths # <<>> =>
                           ((\E i \in DOMAIN results :
                                 /\ results[i].Service = x[1].Name
                                 /\ results[i].Route = x[2].Name
                                 /\ results[i].RequiresAuth = c)
                            <=> (IF c THEN flags.testAuth ELSE flags.testUnauth))

RouteTogglesWitness ==
    /\ pc = "done"
    /\ flags.maxRequests = 0
    /\ ~flags.testAuth /\ flags.testUnauth
    /\ results # <<>>
    /\ \E x \in ConsideredRoutes : Classified(x[1], x[2])
    /\ \E x \in ConsideredRoutes : ~Classified(x[1], x[2])

\* C15: no outcome belongs to a service whose name contains "test" or
\* "health-check" or is "atlantis" or "atlantis-legacy", the loop never enters
\* such a service, and the routes of every other service are considered.
SkippedServices ==
    (InTestRoutes \/ HasReturned \/ pc = "panic") =>
        /\ \A i \in DOMAIN results : results[i].Service \notin SkippedNames
        /\ pc \in {"routes", "paths", "methods", "inflight", "sleep", "panic"} =>
               config.Services[si].Name \notin SkippedNames
        /\ (HasReturned /\ flags.maxRequests = 0 /\ flags.testAuth /\ flags.testUnauth) =>
               \A x \in ConsideredRoutes :
                   x[2].Paths # <<>> =>
                       \E i \in DOMAIN results :
                           results[i].Service = x[1].Name /\ results[i].Route = x[2].Name

SkippedServicesWitness ==
    /\ pc = "done"
    /\ Len(config.Services) = 2
    /\ config.Services[1].Name = <<"atlantis", "-legacy">>
    /\ config.Services[2].Name = <<"atlantis", "-v2">>
    /\ Len(results) = 5
    /\ \A i \in DOMAIN results : results[i].Service = <<"atlantis", "-v2">>

\* C16: the request of a probe carries Authorization: Bearer <token> iff the
\* probe requires auth and the token is not empty; the token is never sent on
\* a probe of a route classified as unauthenticated.
BearerOnlyWhenRequired ==
    pc = "inflight" =>
        LET header == req[1].header
        IN  /\ ("Authorization" \in DOMAIN header) <=> (hasAuth /\ flags.authToken # "")
            /\ "Authorization" \in DOMAIN header =>
                   header["Authorization"] = <<"Bearer ", flags.authToken>>
            /\ ~Classified(config.Services[si], config.Services[si].Routes[ri]) =>
                   "Authorization" \notin DOMAIN header

BearerOnlyWhenRequiredWitness ==
    /\ pc = "inflight"
    /\ hasAuth
    /\ flags.authToken = "secret"
    /\ req[1].method = "PUT"
    /\ DOMAIN req[1].header = {"Authorization", "Content-Type"}
    /\ \E i \in DOMAIN results : ~results[i].RequiresAuth /\ results[i].StatusCode = 200

\* The tokens that hold capture syntax of the replacement table: the opening
\* of a named capture, a generic class, the wildcard.
TablePatterns == CaptureOpens \cup {"[0-9a-fA-F-]+", "[a-zA-Z0-9_-]+", "[^/]+", "(.*)"}

\* C18: every declared path with capture syntax of the table (a named capture,
\* a generic class, a wildcard) is probed as expandRegexPath returns it, every
\* other path as it is declared; the outcome's Path is the path probed.
MaterializedWhenRecognised ==
    (InTestRoutes \/ HasReturned \/ pc = "panic") =>
        LET derived == DerivedProbes
        IN  \A i \in DOMAIN results :
                LET template == derived[i].Template
                IN  IF \E k \in DOMAIN template : template[k] \in TablePatterns
                    THEN results[i].Path \in ExpandTable[template]
                    ELSE results[i].Path = template

\* C19: a request that cannot be built (base URL plus path is not a valid URL)
\* is recorded as the outcome's error with status code 0, for every method,
\* and the run goes on: no probe ends the run in a panic.
BuildFailureCaptured ==
    (InTestRoutes \/ HasReturned \/ pc = "panic") =>
        /\ pc # "panic"
        /\ ~flags.dryRun =>
               \A i \in DOMAIN results :
                   ~ValidURL(flags.baseURL \o results[i].Path) =>
                       results[i].Error = "request" /\ results[i].StatusCode = 0

\* One probe at a time, in configuration order: a request is in flight only
\* while client.Do runs, it is that of the first derived probe without an
\* outcome, and the outcomes so far are those of the first derived probes.
OneProbeAtATime ==
    (InTestRoutes \/ HasReturned \/ pc = "panic") =>
        LET derived == DerivedProbes
        IN  /\ Len(req) <= 1
            /\ (pc = "inflight") <=> (req # <<>>)
            /\ pc = "inflight" =>
                   /\ Len(results) < Len(derived)
                   /\ req[1].method = derived[Len(results) + 1].Method
                   /\ req[1].url = flags.baseURL \o path
            /\ Len(results) <= Len(derived)
            /\ \A i \in DOMAIN results :
                   /\ results[i].Service = derived[i].Service
                   /\ results[i].Route = derived[i].Route
                   /\ results[i].Method = derived[i].Method
                   /\ results[i].RequiresAuth = derived[i].RequiresAuth
                   /\ \/ results[i].Path = derived[i].Template
                      \/ /\ ContainsCapture(derived[i].Template)
                         /\ results[i].Path \in ExpandTable[derived[i].Template]

\* A step leaves the outcomes as they are or appends one, and a request is
\* issued only with the outcomes as they are.
AppendOnly ==
    /\ \/ results' = results
       \/ /\ Len(results') = Len(results) + 1
          /\ SubSeq(results', 1, Len(results)) = results
    /\ (req = <<>> /\ req' # <<>>) => results' = results

PacingStep ==
    /\ (Len(results') = Len(results) + 1) <=> (pc # "sleep" /\ pc' = "sleep")
    /\ pc = "sleep" =>
           /\ pc' = "methods"
           /\ mi' = mi + 1
           /\ results' = results /\ requestCount' = requestCount /\ req' = req
    /\ (pc # "inflight" /\ pc' \in {"inflight", "sleep", "panic"}) => pc = "methods"

\* C22: between two consecutive probes there is exactly one pacing delay, and
\* it follows every recorded outcome: success, error status (429 as well),
\* transport failure or dry run.
PacingUnconditional == [][PacingStep]_vars

PacingUnconditionalWitness ==
    /\ pc = "sleep"
    /\ Len(results) = 2
    /\ results[1].StatusCode = 200
    /\ results[2].StatusCode = 429

\* The loop ends before all derived probes are executed only when a positive
\* budget is used up.
BudgetOnlyEarlyExit ==
    (HasReturned /\ Len(results) < Len(DerivedProbes)) =>
        (flags.maxRequests > 0 /\ Len(results) = flags.maxRequests)

\* C23: every probe eventually completes with an outcome, testRoutes
\* eventually returns and the summary is eventually produced; a used-up budget
\* is the only condition that ends the loop early.
EventuallySummary ==
    /\ []BudgetOnlyEarlyExit
    /\ (pc = "inflight") ~> (pc = "sleep")
    /\ (pc = "methods" /\ mi <= Len(methods) /\ BudgetLeft) ~> (pc = "sleep")
    /\ (pc = "services") ~> (pc = "returned")
    /\ (pc = "services") ~> (pc = "done")

\* The counter is the number of outcomes, the outcomes are those of the first
\* derived probes (which leave out the skipped services, the routes switched
\* off and the routes without a path), and a run that returns under a budget
\* has used it on derived probes alone, dry run or not.
CounterIsOutcomes ==
    (InTestRoutes \/ HasReturned \/ pc = "panic") =>
        LET derived == DerivedProbes
        IN  /\ requestCount = Len(results)
            /\ Len(results) <= Len(derived)
            /\ \A i \in DOMAIN results :
                   /\ results[i].Service = derived[i].Service
                   /\ results[i].Route = derived[i].Route
                   /\ results[i].Service \notin SkippedNames
                   /\ results[i].Route # "empty"
                   /\ IF results[i].RequiresAuth THEN flags.testAuth ELSE flags.testUnauth
            /\ flags.maxRequests > 0 => requestCount <= flags.maxRequests
            /\ (HasReturned /\ flags.maxRequests > 0) =>
                   requestCount = Min(flags.maxRequests, Len(derived))

\* The counter grows by one, together with the outcomes, or not at all.
CounterStep ==
    \/ requestCount' = requestCount /\ results' = results
    \/ requestCount' = requestCount + 1 /\ Len(results') = Len(results) + 1

\* C26: in testRoutes the request counter equals the number of outcomes and
\* grows by one per executed probe; skipped services, routes skipped by the
\* toggles and routes without paths add no outcome and use no budget, and
\* dry-run probes use the budget like real probes.
CounterMatchesOutcomes == []CounterIsOutcomes /\ [][CounterStep]_vars

CounterMatchesOutcomesWitness ==
    /\ pc = "returned"
    /\ flags.dryRun
    /\ flags.maxRequests = 2
    /\ requestCount = 2
    /\ Len(config.Services) = 2
    /\ config.Services[1].Name = <<"api">>
    /\ config.Services[1].Routes # <<>>
    /\ config.Services[1].Routes[1].Name = "empty"
    /\ results[2].Route = "open"

====
